---- MODULE Spec2Model ----
(***************************************************************************)
(* Model of web.py, the Streamlit form that predicts recurrence after      *)
(* endovascular treatment of intracranial aneurysms.                       *)
(*                                                                         *)
(* Streamlit executes the whole script top to bottom once per operator     *)
(* event of a session (page open, widget change, button press, rerun).     *)
(* One such execution is one action of the model: it replaces everything   *)
(* the session's page shows.  Widget values live in the session between    *)
(* executions; the st.cache_resource entry of load_model is shared by all  *)
(* sessions of the process.                                                *)
(*                                                                         *)
(* Units: probabilities are integers in units of 1/PScale (0.5 = 50000,    *)
(* 0.49999 = 49999); Width and Neck are integers in tenths of a millimetre *)
(* (the number_input step, 5.0 mm = 50).                                   *)
(***************************************************************************)
EXTENDS Integers, Sequences, FiniteSets, TLC

VARIABLES
    fileState,   \* what is at MODEL_PATH on disk: "missing", "corrupt", "clf"
    cache,       \* st.cache_resource entry of load_model: "empty", "None", "clf"
    loads,       \* number of joblib load(MODEL_PATH) calls made so far (line 26)
    firstLoad,   \* outcome of the first execution of load_model's body
    inputs,      \* per session: the widget values of the 9 inputs
    page,        \* per session: what the last script execution rendered
    changes      \* number of input changes made so far

vars == <<fileState, cache, loads, firstLoad, inputs, page, changes>>

(* ------------------------------ bounds -------------------------------- *)

\* Cap on the number of widget changes in a behaviour.
MaxChanges == 2

\* Cap on the number of load(MODEL_PATH) calls in a behaviour.
MaxLoads == 2

Sessions == {"s1", "s2"}

\* The session of the single-operator specification.
Operator == {"s1"}

FileStates == {"missing", "corrupt", "clf"}

\* Values the classifier's positive-class estimate takes in the model: both
\* sides of the threshold, the value 0.73, the upper end 1.0 of [0,1], and one
\* value outside [0,1], which an unvalidated artifact can return.
ProbOutcomes == {49999, 50000, 73000, 100000, 120000}

\* Messages of the exceptions predict_proba raises in the model.
ExcDetails == {"feature_names mismatch"}

Outcomes ==
    [kind : {"raise"}, detail : ExcDetails, prob : {-1}]
        \cup [kind : {"ret"}, detail : {""}, prob : ProbOutcomes]

\* Sampled values of the two number inputs (min, default, max).
WidthChoices == {0, 50, 500}
NeckChoices == {0, 30, 300}

(* ------------------- 2. mapping dictionary (lines 38-79) --------------- *)

\* A Python dict keeps insertion order: each per-field table is the sequence
\* of its <<label, code>> items in source order.
mapping_dict ==
    [ThrombolysisAfterTirofiban |-> <<<<"No", 0>>, <<"Yes", 1>>>>,
     StentType |-> <<<<"LVIS", 0>>, <<"Enterprise", 1>>, <<"Solitaire", 2>>,
                     <<"Flow Diverter", 3>>, <<"Other", 4>>>>,
     Morphology |-> <<<<"Saccular", 0>>, <<"Irregular", 1>>, <<"Fusiform", 2>>>>,
     Rupture |-> <<<<"Unruptured", 0>>, <<"Ruptured", 1>>>>,
     EmbolizationTechnique |-> <<<<"Simple Coiling", 0>>, <<"Balloon-Assisted", 1>>,
                                 <<"Stent-Assisted", 2>>>>,
     AngioAndTreatment |-> <<<<"Type A", 0>>, <<"Type B", 1>>, <<"Type C", 2>>>>,
     HeparinTiming |-> <<<<"Pre-operative", 0>>, <<"Intra-operative", 1>>,
                         <<"Post-operative", 2>>>>]

\* list(d.keys()): the labels of a table, in order.
Keys(d) == [i \in 1..Len(d) |-> d[i][1]]

\* k in d
HasKey(d, k) == \E i \in 1..Len(d) : d[i][1] = k

\* d[k]; the caller has established HasKey(d, k) (Python raises KeyError otherwise).
Lookup(d, k) == d[CHOOSE i \in 1..Len(d) : d[i][1] = k][2]

(* ---------------- 3. sidebar widgets (lines 84-139) -------------------- *)

\* The bounds and defaults of the two st.sidebar.number_input widgets.
WidthMin == 0
WidthMax == 500
WidthDefault == 50
NeckMin == 0
NeckMax == 300
NeckDefault == 30

\* The categorical widgets: the variable each st.sidebar.selectbox assigns and
\* the mapping_dict table whose keys are its options.
SelectBoxes ==
    [input_thrombolysis |-> "ThrombolysisAfterTirofiban",
     input_stent |-> "StentType",
     input_morphology |-> "Morphology",
     input_rupture |-> "Rupture",
     input_technique |-> "EmbolizationTechnique",
     input_angio |-> "AngioAndTreatment",
     input_heparin |-> "HeparinTiming"]

NumberInputs == {"input_width", "input_neck"}

Widgets == DOMAIN SelectBoxes \cup NumberInputs

\* options=list(mapping_dict[field].keys()) of a selectbox, as a set.
Options(w) == {Keys(mapping_dict[SelectBoxes[w]])[i] :
                   i \in 1..Len(mapping_dict[SelectBoxes[w]])}

\* What the operator can set a widget to: one of the offered options, or a
\* number within [min_value, max_value] (the widget rejects anything else).
Choices(w) ==
    IF w \in DOMAIN SelectBoxes THEN Options(w)
    ELSE IF w = "input_width"
         THEN {v \in WidthChoices : WidthMin <= v /\ v <= WidthMax}
         ELSE {v \in NeckChoices : NeckMin <= v /\ v <= NeckMax}

\* A widget's value before the operator touches it: a selectbox shows its
\* first option (index 0), a number_input its value= argument.
DefaultOf(w) ==
    IF w \in DOMAIN SelectBoxes THEN Keys(mapping_dict[SelectBoxes[w]])[1]
    ELSE IF w = "input_width" THEN WidthDefault ELSE NeckDefault

DefaultInputs == [w \in Widgets |-> DefaultOf(w)]

(* ------------- 4. feature assembly (lines 149-161) --------------------- *)

\* input_data with the Width and Neck entries exchanged.
InputDataSwapped(ins) ==
    IF \E w \in DOMAIN SelectBoxes : ~HasKey(mapping_dict[SelectBoxes[w]], ins[w])
    THEN <<>>
    ELSE <<
      <<"ThrombolysisAfterTirofiban",
        Lookup(mapping_dict["ThrombolysisAfterTirofiban"], ins["input_thrombolysis"])>>,
      <<"StentType", Lookup(mapping_dict["StentType"], ins["input_stent"])>>,
      <<"Morphology", Lookup(mapping_dict["Morphology"], ins["input_morphology"])>>,
      <<"Rupture", Lookup(mapping_dict["Rupture"], ins["input_rupture"])>>,
      <<"EmbolizationTechnique",
        Lookup(mapping_dict["EmbolizationTechnique"], ins["input_technique"])>>,
      <<"Neck", ins["input_neck"]>>,
      <<"Width", ins["input_width"]>>,
      <<"AngioAndTreatment",
        Lookup(mapping_dict["AngioAndTreatment"], ins["input_angio"])>>,
      <<"HeparinTiming", Lookup(mapping_dict["HeparinTiming"], ins["input_heparin"])>>
    >>

\* input_data built once from the widgets' first values and reused afterwards.
InputDataStale(ins) ==
    <<<<"ThrombolysisAfterTirofiban", 0>>, <<"StentType", 0>>, <<"Morphology", 0>>,
      <<"Rupture", 0>>, <<"EmbolizationTechnique", 0>>, <<"Width", WidthDefault>>,
      <<"Neck", NeckDefault>>, <<"AngioAndTreatment", 0>>, <<"HeparinTiming", 0>>>>

\* input_data / df_input: the single row handed to the classifier, as the
\* sequence of its <<column, value>> items in dict order.  <<>> stands for the
\* KeyError a label outside its table raises.
InputData(ins) ==
    IF \E w \in DOMAIN SelectBoxes : ~HasKey(mapping_dict[SelectBoxes[w]], ins[w])
    THEN <<>>
    ELSE <<
      <<"ThrombolysisAfterTirofiban",
        Lookup(mapping_dict["ThrombolysisAfterTirofiban"], ins["input_thrombolysis"])>>,
      <<"StentType", Lookup(mapping_dict["StentType"], ins["input_stent"])>>,
      <<"Morphology", Lookup(mapping_dict["Morphology"], ins["input_morphology"])>>,
      <<"Rupture", Lookup(mapping_dict["Rupture"], ins["input_rupture"])>>,
      <<"EmbolizationTechnique",
        Lookup(mapping_dict["EmbolizationTechnique"], ins["input_technique"])>>,
      <<"Width", ins["input_width"]>>,
      <<"Neck", ins["input_neck"]>>,
      <<"AngioAndTreatment",
        Lookup(mapping_dict["AngioAndTreatment"], ins["input_angio"])>>,
      <<"HeparinTiming", Lookup(mapping_dict["HeparinTiming"], ins["input_heparin"])>>
    >>

(* ------------- 1. model loading (lines 18-30) -------------------------- *)

\* The body of load_model for what is on disk: a missing file reports
\* st.error and returns None (lines 23-25); otherwise load(MODEL_PATH) is
\* called (line 26) and either returns the classifier or raises.  An exception
\* is not caught anywhere: it ends the script execution.
LoadModelBody(f) ==
    IF f = "missing"
    THEN [ret |-> "None", raised |-> FALSE, err |-> TRUE, loaded |-> 0]
    ELSE IF f = "corrupt"
         THEN [ret |-> "unbound", raised |-> TRUE, err |-> FALSE, loaded |-> 1]
         ELSE [ret |-> f, raised |-> FALSE, err |-> FALSE, loaded |-> 1]

\* @st.cache_resource load_model(): with an entry in the cache the body does
\* not run, the cached value is returned and the st.error recorded with it is
\* replayed; without one the body runs under the cache's lock and its return
\* value (None included) becomes the entry.  A raised exception stores nothing.
load_model(c, f) ==
    IF c # "empty"
    THEN [ret |-> c, raised |-> FALSE, err |-> (c = "None"), loaded |-> 0,
          miss |-> FALSE, entry |-> c]
    ELSE LET r == LoadModelBody(f)
         IN  [ret |-> r.ret, raised |-> r.raised, err |-> r.err, loaded |-> r.loaded,
              miss |-> TRUE, entry |-> IF r.raised THEN "empty" ELSE r.ret]

(* ------------- 4. prediction (lines 168-203) --------------------------- *)

\* 1.0 in the fixed-point representation of float(prob).
PScale == 100000

\* best_threshold = 0.5
best_threshold == 50000

\* A button that reads as pressed in every execution.
StButtonAlways(clicked) == TRUE

\* st.button returns True only in the execution its click caused.
StButton(clicked) == clicked

\* A guard that lets None through.
TruthyAny(model) == TRUE

\* `if model:`; None is falsy, a loaded classifier object is truthy.
Truthy(model) == model # "None"

\* The comparison written with > in place of >=.
PredictionClassStrict(prob) == IF prob > best_threshold THEN 1 ELSE 0

\* prediction_class = 1 if prob >= best_threshold else 0
PredictionClass(prob) == IF prob >= best_threshold THEN 1 ELSE 0

\* f"{prob:.2%}": the percentage with two decimals, as an integer number of
\* hundredths of a percent (73.00% = 7300), rounded to nearest, ties to even.
FormatPercent(prob) ==
    LET q == prob \div 10
        r == prob % 10
    IN  IF r > 5 \/ (r = 5 /\ q % 2 = 1) THEN q + 1 ELSE q

\* The labels column 2 shows: st.error "High Risk" or st.success "Low Risk".
RiskLabel(prediction_class) ==
    IF prediction_class = 1 THEN {"High Risk"} ELSE {"Low Risk"}

\* The note rendered whatever the class.
ShowsNoteAlways(prediction_class) == TRUE

\* Whether the st.warning note is rendered.
ShowsNote(prediction_class) == prediction_class = 1

\* st.progress(value) accepts a float only within [0.0, 1.0] and raises
\* StreamlitAPIException for any other.
StProgressRaises(prob) == prob < 0 \/ prob > PScale

\* The bar st.progress draws: int(value * 100).
StProgressValue(prob) == (prob * 100) \div PScale

\* The message st.progress raises with.
ProgressDetail == "Progress Value has invalid value [0.0, 1.0]"

\* What the block under the button renders when the button was not pressed:
\* nothing.  metric, label, bar and note are the report; predErr and advice
\* the two elements of the except branch; modelErr the else branch's st.error.
\* infer counts the predict_proba calls of the execution, inferArg is their
\* argument, clfRaised / clfRet what the call raised / returned, cls the
\* value of prediction_class (-1 and "" where there is none).
NoResult ==
    [metric |-> -1, label |-> {}, bar |-> -1, note |-> FALSE,
     predErr |-> "", advice |-> FALSE, modelErr |-> FALSE,
     infer |-> 0, inferArg |-> <<>>, clfRaised |-> "", clfRet |-> -1, cls |-> -1]

\* A handler that reports a fixed message and drops str(e).
ExceptHandlerGeneric(shown, e) ==
    [shown EXCEPT !.predErr = "Error during prediction", !.advice = TRUE]

\* except Exception as e: the elements rendered before the exception stay;
\* st.error carries str(e) and st.write the advice.
ExceptHandler(shown, e) == [shown EXCEPT !.predErr = e, !.advice = TRUE]

\* A call that is made again after the first one.
CallPredictProbaTwice(df) == [NoResult EXCEPT !.infer = 2, !.inferArg = df]

\* model.predict_proba(df_input): the one call of line 172.
CallPredictProba(df) == [NoResult EXCEPT !.infer = 1, !.inferArg = df]

\* The body of `if st.button(...)`: out is what model.predict_proba does in
\* this execution (raise, or return the positive-class estimate).
PredictHandler(model, df, out) ==
    IF Truthy(model)
    THEN LET called == CallPredictProba(df)
         IN  IF out.kind = "raise"
             THEN ExceptHandler([called EXCEPT !.clfRaised = out.detail], out.detail)
             ELSE LET prob == out.prob
                      prediction_class == PredictionClass(prob)
                      shown == [called EXCEPT !.clfRet = prob,
                                              !.cls = prediction_class,
                                              !.metric = FormatPercent(prob),
                                              !.label = RiskLabel(prediction_class)]
                  IN  IF StProgressRaises(prob)
                      THEN ExceptHandler(shown, ProgressDetail)
                      ELSE [shown EXCEPT !.bar = StProgressValue(prob),
                                         !.note = ShowsNote(prediction_class)]
    ELSE [NoResult EXCEPT !.modelErr = TRUE]

(* ------------- one execution of the script ----------------------------- *)

\* The result panel of a page p, as the operator sees it.
PanelKind(p) ==
    IF p.status = "closed" THEN "none"
    ELSE IF p.status = "crash" \/ p.res.predErr # "" \/ p.res.modelErr THEN "Error"
    ELSE IF p.res.metric # -1 THEN "Evaluated"
    ELSE "Idle"

ClosedPage ==
    [status |-> "closed", clicked |-> FALSE, prev |-> "none",
     handle |-> "unbound", loadErr |-> FALSE, df |-> <<>>, res |-> NoResult]

\* The page an execution of the script renders for session s with widget
\* values ins.  clicked says whether the predict button caused the execution;
\* clicked and prev (the panel the execution replaced) are bookkeeping about
\* the execution itself.
Rendered(s, ins, clicked, out) ==
    LET m == load_model(cache, fileState)
        df == InputData(ins)
        base == [ClosedPage EXCEPT !.clicked = clicked,
                                   !.prev = PanelKind(page[s])]
    IN  IF m.raised
        THEN [base EXCEPT !.status = "crash"]
        ELSE IF df = <<>>
        THEN [base EXCEPT !.status = "crash", !.handle = m.ret, !.loadErr = m.err]
        ELSE [base EXCEPT !.status = "form", !.handle = m.ret, !.loadErr = m.err,
                          !.df = df,
                          !.res = IF StButton(clicked)
                                  THEN PredictHandler(m.ret, df, out)
                                  ELSE NoResult]

\* An execution that renders no result consults no classifier.
NoOutcome == [kind |-> "ret", detail |-> "", prob |-> 0]

\* One execution of the script for session s.
Execute(s, ins, clicked, out) ==
    LET m == load_model(cache, fileState)
    IN  /\ loads + m.loaded <= MaxLoads
        /\ cache' = m.entry
        /\ loads' = loads + m.loaded
        /\ firstLoad' = IF m.miss /\ firstLoad = "none"
                        THEN (IF m.raised THEN "raised" ELSE m.ret)
                        ELSE firstLoad
        /\ inputs' = [inputs EXCEPT ![s] = ins]
        /\ page' = [page EXCEPT ![s] = Rendered(s, ins, clicked, out)]

(* ------------------------------ actions -------------------------------- *)

Init ==
    /\ fileState \in FileStates
    /\ cache = "empty"
    /\ loads = 0
    /\ firstLoad = "none"
    /\ inputs = [s \in Sessions |-> DefaultInputs]
    /\ page = [s \in Sessions |-> ClosedPage]
    /\ changes = 0

\* An operator opens the page: the first execution of a session.
Open(s) ==
    /\ page[s].status = "closed"
    /\ Execute(s, inputs[s], FALSE, NoOutcome)
    /\ UNCHANGED <<fileState, changes>>

\* The operator asks for a rerun of the page as it is.
Rerun(s) ==
    /\ page[s].status # "closed"
    /\ Execute(s, inputs[s], FALSE, NoOutcome)
    /\ UNCHANGED <<fileState, changes>>

\* The operator sets widget w to v: the script runs again with the new value.
SetWidget(s, w, v) ==
    /\ page[s].status = "form"
    /\ v \in Choices(w)
    /\ v # inputs[s][w]
    /\ Execute(s, [inputs[s] EXCEPT ![w] = v], FALSE, NoOutcome)
    /\ UNCHANGED fileState

ChangeInput(s, w, v) ==
    /\ changes < MaxChanges
    /\ SetWidget(s, w, v)
    /\ changes' = changes + 1

\* The operator presses the predict button.
Press(s) ==
    /\ page[s].status = "form"
    /\ \E out \in Outcomes : Execute(s, inputs[s], TRUE, out)
    /\ UNCHANGED <<fileState, changes>>

\* The environment replaces, removes or damages the artifact at MODEL_PATH.
SetFile(f) ==
    /\ f \in FileStates
    /\ f # fileState
    /\ fileState' = f
    /\ UNCHANGED <<cache, loads, firstLoad, inputs, page, changes>>

\* One operator, every event.
Next ==
    \/ \E s \in Operator : Open(s)
    \/ \E s \in Operator : Rerun(s)
    \/ \E s \in Operator : \E w \in Widgets : \E v \in Choices(w) : ChangeInput(s, w, v)
    \/ \E s \in Operator : Press(s)
    \/ \E f \in FileStates : SetFile(f)

Spec == Init /\ [][Next]_vars

\* The operator sets widget w to v, with no cap on how often.
Retune(s, w, v) ==
    /\ SetWidget(s, w, v)
    /\ UNCHANGED changes

\* One operator filling in the form: every combination of widget values.
NextForm ==
    \/ \E s \in Operator : Open(s)
    \/ \E s \in Operator : \E w \in Widgets : \E v \in Choices(w) : Retune(s, w, v)

SpecForm == Init /\ [][NextForm]_vars

\* Several operator sessions of one process, sharing the cache.
NextShared ==
    \/ \E s \in Sessions : Open(s)
    \/ \E s \in Sessions : Rerun(s)
    \/ \E s \in Sessions : Press(s)
    \/ \E f \in FileStates : SetFile(f)

SpecShared == Init /\ [][NextShared]_vars

(* ----------------------------- properties ------------------------------ *)

\* Some element of the risk report is on the page.
Shown(p) ==
    p.res.metric # -1 \/ p.res.label # {} \/ p.res.bar # -1 \/ p.res.note

\* The complete risk report is on the page, and no error with it.
FullReport(p) ==
    /\ p.res.metric # -1
    /\ p.res.label # {}
    /\ p.res.bar # -1
    /\ p.res.predErr = ""
    /\ ~p.res.modelErr

\* The column order the feature vector is documented to have.
FeatureOrder ==
    <<"ThrombolysisAfterTirofiban", "StentType", "Morphology", "Rupture",
      "EmbolizationTechnique", "Width", "Neck", "AngioAndTreatment", "HeparinTiming">>

\* The widget a column is read from.
WidgetOf ==
    [ThrombolysisAfterTirofiban |-> "input_thrombolysis", StentType |-> "input_stent",
     Morphology |-> "input_morphology", Rupture |-> "input_rupture",
     EmbolizationTechnique |-> "input_technique", Width |-> "input_width",
     Neck |-> "input_neck", AngioAndTreatment |-> "input_angio",
     HeparinTiming |-> "input_heparin"]

\* The feature vector the documented order and the encoding table give for
\* widget values ins.
ExpectedRow(ins) ==
    [i \in 1..Len(FeatureOrder) |->
        LET col == FeatureOrder[i]
            val == ins[WidgetOf[col]]
        IN  <<col, IF col \in {"Width", "Neck"}
                   THEN val
                   ELSE Lookup(mapping_dict[col], val)>>]

\* C1: a predict trigger in a run whose classifier handle is None is refused
\* with the "model not loaded" error: predict_proba is not called and no
\* element of the risk report (and no inference error) is rendered.
C1_RefusedWithoutModel ==
    \A s \in Sessions :
        (page[s].clicked /\ page[s].handle = "None") =>
            /\ page[s].res.modelErr
            /\ page[s].res.infer = 0
            /\ ~Shown(page[s])
            /\ page[s].res.predErr = ""

\* C1 witness: after an input change, a trigger was refused for want of a model.
C1_Witness ==
    \E s \in Sessions :
        /\ page[s].clicked
        /\ page[s].handle = "None"
        /\ page[s].res.modelErr
        /\ inputs[s] # DefaultInputs

\* C2: for every probability the classifier returned, the predicted class is
\* 1 exactly when the probability is at least 0.5; 0.5 itself gives class 1
\* and 0.49999 gives class 0.
C2_ThresholdClass ==
    \A s \in Sessions :
        LET r == page[s].res
        IN  r.clfRet # -1 =>
                /\ r.cls \in {0, 1}
                /\ (r.cls = 1) <=> (2 * r.clfRet >= PScale)
                /\ (r.clfRet = 50000) => (r.cls = 1)
                /\ (r.clfRet = 49999) => (r.cls = 0)

\* C2 witness: the classifier returned exactly 0.5 and class 1 was predicted.
C2_Witness ==
    \E s \in Sessions : page[s].res.clfRet = 50000 /\ page[s].res.cls = 1

\* C3: a script run calls predict_proba exactly once when the predict
\* trigger caused it and a classifier is loaded, and not at all otherwise; in
\* particular a run caused by an input change makes no call.
C3_InferenceOnlyOnTrigger ==
    [][\A s \in Sessions :
          /\ (page'[s] # page[s]) =>
                page'[s].res.infer =
                    (IF page'[s].clicked /\ page'[s].handle = "clf" THEN 1 ELSE 0)
          /\ (inputs'[s] # inputs[s]) => (page'[s].res.infer = 0)]_vars

\* C3 witness: after input changes that left the panel idle, one press made
\* one call.
C3_Witness ==
    \E s \in Sessions :
        /\ page[s].clicked
        /\ page[s].res.infer = 1
        /\ page[s].prev = "Idle"
        /\ inputs[s] # DefaultInputs

C5_NoPartialResult ==
    \A s \in Sessions : page[s].res.predErr # "" => ~Shown(page[s])

\* C6: a successful evaluation shows exactly one label, "High Risk" exactly
\* when the class is 1 and "Low Risk" otherwise, and the advisory note
\* exactly when the class is 1.
C6_LabelMatchesClass ==
    \A s \in Sessions :
        LET r == page[s].res
        IN  (r.clfRet # -1 /\ r.predErr = "") =>
                /\ Cardinality(r.label) = 1
                /\ ("High Risk" \in r.label) <=> (r.cls = 1)
                /\ ("Low Risk" \in r.label) <=> (r.cls # 1)
                /\ r.note <=> (r.cls = 1)
                /\ ~(r.note /\ "Low Risk" \in r.label)

\* C6 witness: a successful evaluation of class 0 shows "Low Risk" without
\* the note.
C6_Witness ==
    \E s \in Sessions :
        LET r == page[s].res
        IN  r.clfRet # -1 /\ r.predErr = "" /\ r.cls = 0
                /\ r.label = {"Low Risk"} /\ ~r.note

\* C7: whatever the operator selects, assembly does not fail and the row
\* holds the 9 columns in the documented order, each categorical column
\* holding the table's code of the selected label and Width and Neck the
\* entered values; a run ends early only where load_model raised.
C7_FeatureVector ==
    \A s \in Sessions :
        /\ page[s].status = "crash" => page[s].handle = "unbound"
        /\ page[s].status = "form" =>
              /\ Len(page[s].df) = 9
              /\ page[s].df = ExpectedRow(inputs[s])

\* C7 witness: every widget moved to its last choice, and the row that gives.
C7_Witness ==
    \E s \in Sessions :
        /\ \A w \in Widgets : inputs[s][w] # DefaultOf(w)
        /\ page[s].df =
              <<<<"ThrombolysisAfterTirofiban", 1>>, <<"StentType", 4>>,
                <<"Morphology", 2>>, <<"Rupture", 1>>, <<"EmbolizationTechnique", 2>>,
                <<"Width", 500>>, <<"Neck", 300>>, <<"AngioAndTreatment", 2>>,
                <<"HeparinTiming", 2>>>>

\* C8 (as claimed): the result panel changes only in a run caused by the
\* predict trigger; any other step leaves what it shows as it is.
C8_PanelChangesOnlyOnTrigger ==
    [][\A s \in Sessions :
          (page'[s].res # page[s].res) => page'[s].clicked]_vars

\* C8 (amended): the panel shows an assessment only as rendered by a run the
\* predict trigger caused; every run of the session's script that the trigger
\* did not cause (an input change, a rerun) leaves the panel idle, and a step
\* that is no run of the session leaves its panel alone.
C8_PanelClearedByOtherRuns ==
    [][\A s \in Sessions :
          /\ (page'[s] # page[s] /\ ~page'[s].clicked) => ~Shown(page'[s])
          /\ Shown(page'[s]) => (page'[s].clicked /\ page'[s].handle = "clf")
          /\ (inputs'[s] # inputs[s]) => ~Shown(page'[s])]_vars

\* C8 witness: an input change took the panel from Evaluated back to Idle.
C8_Witness ==
    \E s \in Sessions :
        /\ page[s].prev = "Evaluated"
        /\ PanelKind(page[s]) = "Idle"
        /\ ~page[s].clicked
        /\ inputs[s] # DefaultInputs

\* C9 (as claimed): once load_model's body has run, no later step calls
\* load(MODEL_PATH) again, every later run observes the outcome of that first
\* attempt, a classifier or None, and the cached handle never changes.
C9_LoadedOnce ==
    [][firstLoad # "none" =>
          /\ loads' = loads
          /\ loads' <= 1
          /\ cache' = cache
          /\ \A s \in Sessions :
                (page'[s] # page[s]) =>
                    (page'[s].handle = firstLoad /\ firstLoad \in {"None", "clf"})]_vars

\* C10: whenever an element of the risk report is visible, the run that
\* rendered it was caused by the trigger and called the classifier on the
\* feature vector of the widget values the page shows now.
C10_NoStaleAssessment ==
    \A s \in Sessions :
        Shown(page[s]) =>
            /\ page[s].clicked
            /\ page[s].res.infer = 1
            /\ page[s].res.inferArg = ExpectedRow(inputs[s])
            /\ page[s].df = ExpectedRow(inputs[s])

\* C10 witness: a complete report rendered for widget values the operator
\* had changed, by a trigger that followed the change.
C10_Witness ==
    \E s \in Sessions :
        /\ FullReport(page[s])
        /\ page[s].prev = "Idle"
        /\ inputs[s]["input_width"] # WidthDefault
        /\ inputs[s]["input_stent"] # "LVIS"
        /\ page[s].res.inferArg = ExpectedRow(inputs[s])

====
